---------------------------- MODULE Spec2Model ----------------------------
(***************************************************************************)
(* Model of the two notebooks of Python-Engineering:                       *)
(*   03-SistemasLineales.ipynb : linear systems, inverses, condition       *)
(*                               number (numpy / scipy.linalg calls)       *)
(*   LinearOptimization.ipynb  : linear and integer programs (scipy        *)
(*                               linprog and pulp models)                  *)
(* Numbers are exact rationals <<num, den>>, den > 0, in lowest terms, so  *)
(* that "within tolerance" statements are decided without rounding.        *)
(***************************************************************************)
EXTENDS Integers, Sequences, FiniteSets, TLC

---------------------------------------------------------------------------
(* Exact rational arithmetic                                               *)

Abs(n) == IF n < 0 THEN -n ELSE n

RECURSIVE GCD(_, _)
GCD(a, c) == IF c = 0 THEN a ELSE GCD(c, a % c)

Norm(n, d) ==
    LET s == IF d < 0 THEN -1 ELSE 1
        g == GCD(Abs(n), Abs(d))
    IN  <<(s * n) \div g, (s * d) \div g>>

R(n) == <<n, 1>>
RZero == <<0, 1>>
ROne == <<1, 1>>

RAdd(p, q) ==
    LET g == GCD(p[2], q[2])
    IN  Norm(p[1] * (q[2] \div g) + q[1] * (p[2] \div g), (p[2] \div g) * q[2])

RNeg(p) == <<-p[1], p[2]>>

RSub(p, q) == RAdd(p, RNeg(q))

RMul(p, q) ==
    LET g1 == GCD(Abs(p[1]), q[2])
        g2 == GCD(Abs(q[1]), p[2])
    IN  IF p[1] = 0 \/ q[1] = 0 THEN RZero
        ELSE <<(p[1] \div g1) * (q[1] \div g2), (p[2] \div g2) * (q[2] \div g1)>>

RInv(q) == IF q[1] > 0 THEN <<q[2], q[1]>> ELSE <<-q[2], -q[1]>>

RDiv(p, q) == RMul(p, RInv(q))

RAbs(p) == <<Abs(p[1]), p[2]>>

RLess(p, q) == p[1] * q[2] < q[1] * p[2]

RLeq(p, q) == p[1] * q[2] <= q[1] * p[2]

\* the sum of a sequence, added up by halves
RECURSIVE RSum(_)
RSum(s) ==
    IF Len(s) = 0 THEN RZero
    ELSE IF Len(s) = 1 THEN s[1]
    ELSE LET h == Len(s) \div 2
         IN  RAdd(RSum(SubSeq(s, 1, h)), RSum(SubSeq(s, h + 1, Len(s))))

(* Vectors are sequences of rationals, matrices sequences of rows.         *)
RVec(v) == [i \in 1..Len(v) |-> R(v[i])]
RMat(M) == [i \in 1..Len(M) |-> RVec(M[i])]

\* numpy: A.dot(x) for a matrix A and a vector x
Dot(M, v) == [i \in 1..Len(M) |-> RSum([j \in 1..Len(v) |-> RMul(M[i][j], v[j])])]

\* the element-wise product A*B, which is not A.dot(B)
MatMulElementwise(M, N) ==
    [i \in 1..Len(M) |-> [j \in 1..Len(M[i]) |-> RMul(M[i][j], N[i][j])]]

\* numpy: A.dot(B) for two matrices
MatMul(M, N) ==
    [i \in 1..Len(M) |->
        [j \in 1..Len(N[1]) |-> RSum([l \in 1..Len(N) |-> RMul(M[i][l], N[l][j])])]]

VSub(u, v) == [i \in 1..Len(u) |-> RSub(u[i], v[i])]

Identity(n) == [i \in 1..n |-> [j \in 1..n |-> IF i = j THEN ROne ELSE RZero]]

ZeroVec(n) == [i \in 1..n |-> RZero]

---------------------------------------------------------------------------
(* State                                                                   *)

VARIABLES
    A,        \* the matrix bound to the global name A
    b,        \* the right-hand side bound to the global name b
    op,       \* the library call in progress: "none", "solve", "inv", "cond"
    pc,       \* position of the call
    W,        \* the call's private working copy [A | B]
    k,        \* the elimination column
    status,   \* outcome of the call: "none", "ok", "SingularMatrix"
    result,   \* the returned n x m matrix X (m = 1 for solve), <<>> before
    check,    \* what the verification line printed, <<>> before
    model,    \* the optimization model bound to the global name model ("none": unbound)
    val,      \* the solver's current point of that model, in grid steps per variable
    lp,       \* the linear program handed to the simplex solver
    T,        \* its tableau: one row per constraint, then the objective row
    basis,    \* the basic variable of each constraint row
    phase,    \* state of the simplex state machine
    nit,      \* pivots done
    stall,    \* consecutive pivots that did not change the objective
    names,    \* kernel of LinearOptimization.ipynb: the model whose variable each global name holds
    out,      \* what each report has printed last
    ran       \* the cells executed so far, in order

laVars == <<A, b, op, pc, W, k, status, result, check>>

lpVars == <<model, val>>

sxVars == <<lp, T, basis, phase, nit, stall>>

nbVars == <<names, out, ran>>

vars == <<A, b, op, pc, W, k, status, result, check, model, val,
          lp, T, basis, phase, nit, stall, names, out, ran>>

\* the simplex solver has not been called
SxIdle ==
    /\ lp = <<>>
    /\ T = <<>>
    /\ basis = <<>>
    /\ phase = "none"
    /\ nit = 0
    /\ stall = 0

\* no cell of LinearOptimization.ipynb has been executed
NbIdle ==
    /\ names = <<>>
    /\ out = <<>>
    /\ ran = <<>>

---------------------------------------------------------------------------
(* The linear solver behind np.linalg.solve / linalg.inv: LU elimination   *)
(* with partial pivoting on a working copy, then back substitution.        *)

Dim(M) == Len(M)

\* [M | B] : the rows of M extended by the rows of B
Augment(M, B) == [i \in 1..Len(M) |-> M[i] \o B[i]]

AsColumn(v) == [i \in 1..Len(v) |-> <<v[i]>>]

Column(X, c) == [i \in 1..Len(X) |-> X[i][c]]

\* mutant of PivotRow: no pivot search, the diagonal entry is taken as it is
PivotRowDiagonal(M, c) == c

\* partial pivoting: the first row at or below c with the largest |entry| in column c
PivotRow(M, c) ==
    CHOOSE p \in c..Dim(M) :
        /\ \A i \in c..Dim(M) : RLeq(RAbs(M[i][c]), RAbs(M[p][c]))
        /\ \A i \in c..(p - 1) : RLess(RAbs(M[i][c]), RAbs(M[p][c]))

SwapRows(M, i, j) == [M EXCEPT ![i] = M[j], ![j] = M[i]]

\* subtract multiples of the pivot row c from every row below it
EliminateBelow(M, c) ==
    [i \in 1..Len(M) |->
        IF i <= c THEN M[i]
        ELSE LET f == RDiv(M[i][c], M[c][c])
             IN  [j \in 1..Len(M[i]) |-> RSub(M[i][j], RMul(f, M[c][j]))]]

RECURSIVE BackSubCol(_, _, _, _)
BackSubCol(U, c, i, xs) ==
    IF i = 0 THEN xs
    ELSE LET n == Dim(U)
             s == RSum([j \in 1..n |-> IF j > i THEN RMul(U[i][j], xs[j]) ELSE RZero])
             xi == RDiv(RSub(U[i][n + c], s), U[i][i])
         IN  BackSubCol(U, c, i - 1, [xs EXCEPT ![i] = xi])

\* the solution X of U X = B for the upper-triangular working matrix [U | B]
BackSub(U) ==
    LET n == Dim(U)
        m == Len(U[1]) - n
        cols == [c \in 1..m |-> BackSubCol(U, c, n, ZeroVec(n))]
    IN  [i \in 1..n |-> [c \in 1..m |-> cols[c][i]]]

\* squared Frobenius norm: linalg.norm(M) with its default ord=None is the
\* Frobenius norm sqrt(sum |m_ij|^2)
NormSq(M) == RSum([i \in 1..Len(M) |-> RSum([j \in 1..Len(M[i]) |-> RMul(M[i][j], M[i][j])])])

\* kappa^2 for kappa = linalg.norm(A)*linalg.norm(linalg.inv(A))
KappaSq(M, Minv) == RMul(NormSq(M), NormSq(Minv))

\* mutant of Delta: the right-hand side added instead of subtracted
DeltaPlus(M, x, v) == [i \in 1..Len(v) |-> RAdd(Dot(M, x)[i], v[i])]

\* the verification line of a cell: A.dot(x) - b
Delta(M, x, v) == VSub(Dot(M, x), v)

---------------------------------------------------------------------------
(* linalg.eig in exact arithmetic: the eigenvalues are the roots of the    *)
(* characteristic polynomial, an eigenvector spans part of the null space  *)
(* of A - lambda I and is scaled to unit length.  A unit vector with       *)
(* irrational entries is kept as a rational direction u and the square s   *)
(* of the length it is divided by: v = u / sqrt(s).                        *)

\* bound: integer eigenvalues are searched in -MaxEig..MaxEig
MaxEig == 10

Trace(M) == RSum([i \in 1..Len(M) |-> M[i][i]])

MatAdd(M, N) == [i \in 1..Len(M) |-> [j \in 1..Len(M[i]) |-> RAdd(M[i][j], N[i][j])]]

MatScale(q, M) == [i \in 1..Len(M) |-> [j \in 1..Len(M[i]) |-> RMul(q, M[i][j])]]

VScale(q, v) == [i \in 1..Len(v) |-> RMul(q, v[i])]

\* v and M written out entry by entry, so that every entry is computed once
RECURSIVE VecOf(_, _)
VecOf(v, n) == IF n = 0 THEN <<>> ELSE Append(VecOf(v, n - 1), v[n])

RECURSIVE MatOf(_, _, _)
MatOf(M, n, m) == IF n = 0 THEN <<>> ELSE Append(MatOf(M, n - 1, m), VecOf(M[n], m))

\* Faddeev-LeVerrier: M_1 = I, c_k = -tr(A M_k)/k, M_(k+1) = A M_k + c_k I
RECURSIVE CharPolyStep(_, _, _, _)
CharPolyStep(M, Mk, cs, kk) ==
    IF kk > Dim(M) THEN cs
    ELSE LET n == Dim(M)
             P == MatOf(MatMul(M, Mk), n, n)
             ck == RDiv(RNeg(Trace(P)), R(kk))
         IN  CharPolyStep(M, MatOf(MatAdd(P, MatScale(ck, Identity(n))), n, n),
                          Append(cs, ck), kk + 1)

\* the coefficients <<1, c_1, .., c_n>> of det(x I - M), highest power first
CharPoly(M) == CharPolyStep(M, Identity(Dim(M)), <<ROne>>, 1)

\* the value of polynomial p at x (Horner)
RECURSIVE PolyEval(_, _, _, _)
PolyEval(p, x, i, acc) ==
    IF i > Len(p) THEN acc ELSE PolyEval(p, x, i + 1, RAdd(RMul(acc, x), p[i]))

\* p divided by (x - r), the remainder dropped
RECURSIVE Deflate(_, _, _, _)
Deflate(p, r, i, q) ==
    IF i >= Len(p) THEN q
    ELSE Deflate(p, r, i + 1, Append(q, IF i = 1 THEN p[1] ELSE RAdd(p[i], RMul(r, q[i - 1]))))

\* the integer roots of p with their multiplicity, in increasing order
RECURSIVE Roots(_)
Roots(p) ==
    IF Len(p) <= 1 THEN <<>>
    ELSE LET cand == {x \in (-MaxEig)..MaxEig : PolyEval(p, R(x), 1, RZero) = RZero}
         IN  IF cand = {} THEN <<>>
             ELSE LET r == CHOOSE x \in cand : \A y \in cand : x <= y
                  IN  <<R(r)>> \o Roots(Deflate(p, R(r), 1, <<>>))

\* every eigenvalue of M is an integer within the searched range
RationalSpectrum(M) == Len(Roots(CharPoly(M))) = Dim(M)

\* the first row at or below r with a non-zero entry in column c, 0 if none
FirstNonZeroRow(M, r, c) ==
    IF \E i \in r..Len(M) : M[i][c] # RZero
    THEN CHOOSE i \in r..Len(M) : M[i][c] # RZero /\ \A j \in r..(i - 1) : M[j][c] = RZero
    ELSE 0

\* reduced row echelon form of M, from pivot row r and column c on
RECURSIVE Rref(_, _, _)
Rref(M, r, c) ==
    IF r > Len(M) \/ c > Len(M[1]) THEN M
    ELSE LET p == FirstNonZeroRow(M, r, c)
         IN  IF p = 0 THEN Rref(M, r, c + 1)
             ELSE LET S == SwapRows(M, r, p)
                      piv == [j \in 1..Len(S[r]) |-> RDiv(S[r][j], S[r][c])]
                      E == [i \in 1..Len(S) |->
                              IF i = r THEN piv
                              ELSE [j \in 1..Len(S[i]) |-> RSub(S[i][j], RMul(S[i][c], piv[j]))]]
                  IN  Rref(MatOf(E, Len(M), Len(M[1])), r + 1, c + 1)

\* the column of the leading entry of row i of a reduced matrix, 0 for a zero row
LeadCol(Rm, i) ==
    IF \E c \in 1..Len(Rm[i]) : Rm[i][c] # RZero
    THEN CHOOSE c \in 1..Len(Rm[i]) : Rm[i][c] # RZero /\ \A j \in 1..(c - 1) : Rm[i][j] = RZero
    ELSE 0

FreeCols(Rm) == {c \in 1..Len(Rm[1]) : \A i \in 1..Len(Rm) : LeadCol(Rm, i) # c}

\* the null-space vector of the reduced matrix that is 1 at free column f
NullVector(Rm, f) ==
    [c \in 1..Len(Rm[1]) |->
        IF c = f THEN ROne
        ELSE IF c \in FreeCols(Rm) THEN RZero
        ELSE LET i == CHOOSE r \in 1..Len(Rm) : LeadCol(Rm, r) = c
             IN  RNeg(Rm[i][f])]

\* the j-th smallest element of a set of integers
RECURSIVE Nth(_, _)
Nth(S, j) ==
    LET m == CHOOSE x \in S : \A y \in S : x <= y
    IN  IF j = 1 THEN m ELSE Nth(S \ {m}, j - 1)

\* the direction of the eigenvector returned for eigenvalue number j of w:
\* repeated eigenvalues take the null-space vectors in turn
EigenDirection(M, w, j) ==
    LET Rm == Rref(MatAdd(M, MatScale(RNeg(w[j]), Identity(Dim(M)))), 1, 1)
        first == CHOOSE i \in 1..j : w[i] = w[j] /\ \A l \in 1..(i - 1) : w[l] # w[j]
        g == Cardinality(FreeCols(Rm))
    IN  NullVector(Rm, Nth(FreeCols(Rm), ((j - first) % g) + 1))

\* mutant of EigVec: row i of the eigenvector matrix taken for eigenvalue i
EigVecRow(sol, i) == [u |-> sol.vr[i], s |-> sol.s[i]]

\* sol[1][:, i] : column i of the eigenvector matrix sol[1], the eigenvector
\* of eigenvalue sol[0][i]
EigVec(sol, i) == [u |-> Column(sol.vr, i), s |-> sol.s[i]]

\* A.dot(sol[1][:, i]) - sol[0][i]*sol[1][:, i], in the same (u, s) form
Verification(M, sol, i) ==
    [u |-> VSub(Dot(M, EigVec(sol, i).u), VScale(sol.w[i], EigVec(sol, i).u)),
     s |-> EigVec(sol, i).s]

\* the squared length of u / sqrt(s)
UnitNormSq(v) == RDiv(RSum([i \in 1..Len(v.u) |-> RMul(v.u[i], v.u[i])]), v.s)

---------------------------------------------------------------------------
(* The inputs of 03-SistemasLineales.ipynb                                 *)

\* bounds of the enumerated inputs
MaxEntry == 1
MaxN == 3

\* mutant of SystemA: the sign of one coupling coefficient lost
SystemASignSlip == RMat(<< <<150, -100, 0>>, <<-100, 150, 50>>, <<0, -50, 50>> >>)

\* "Solving linear systems": A and b of the worked example
SystemA == RMat(<< <<150, -100, 0>>, <<-100, 150, -50>>, <<0, -50, 50>> >>)
SystemB == << Norm(5886, 10), Norm(6867, 10), Norm(7848, 10) >>

\* "Computing inverse matrices": A of the worked example
InverseA == RMat(<< <<1, 2>>, <<3, 4>> >>)

\* "Eigen values and eigen vectors": A of the example and of the exercise
EigenA == RMat(<< <<2, 5, 8, 7>>, <<5, 2, 2, 8>>, <<7, 5, 6, 6>>, <<5, 4, 4, 8>> >>)
EigenExerciseA == RMat(<< <<5, 4, 1, 1>>, <<4, 5, 1, 1>>, <<1, 1, 4, 2>>, <<1, 1, 2, 4>> >>)

\* "Exercise" of the reactors: flows Qij and inlet concentrations
Q01 == 6
Q03 == 7
Q12 == 4
Q15 == 5
Q23 == 2
Q24 == 1
Q25 == 1
Q31 == 3
Q34 == 6
Q44 == 9
Q54 == 2
Q55 == 4
c01 == 20
c03 == 50

\* mutant of ReactorA: - Q31 of the first balance typed as Q31
ReactorASignSlip ==
    RMat(<< <<(Q15 + Q12), 0, Q31, 0, 0>>,
            <<Q12, -(Q25 + Q24 + Q23), 0, 0, 0>>,
            <<0, Q23, -(Q31 + Q34), 0, 0>>,
            <<0, Q24, Q34, - Q44, Q54>>,
            <<Q15, Q25, 0, 0, -(Q54 + Q55)>> >>)

ReactorA ==
    RMat(<< <<(Q15 + Q12), 0, - Q31, 0, 0>>,
            <<Q12, -(Q25 + Q24 + Q23), 0, 0, 0>>,
            <<0, Q23, -(Q31 + Q34), 0, 0>>,
            <<0, Q24, Q34, - Q44, Q54>>,
            <<Q15, Q25, 0, 0, -(Q54 + Q55)>> >>)

ReactorB == RVec(<<Q01 * c01, 0, -Q03 * c03, 0, 0>>)

SmallEntries == {R(e) : e \in (-MaxEntry)..MaxEntry}

\* the cells that draw A (and b) with np.random.rand stand for any matrix;
\* here every 1 x 1 and 2 x 2 matrix and right-hand side over SmallEntries
RandomInputs ==
    UNION {[A : [1..n -> [1..n -> SmallEntries]], b : [1..n -> SmallEntries]] : n \in 1..2}

\* and every 3 x 3 matrix of zeros and ones, with one right-hand side
RandomInputs3 ==
    [A : [1..3 -> [1..3 -> {RZero, ROne}]], b : {RVec(<<1, 2, 3>>)}]

Inputs ==
    RandomInputs
    \cup RandomInputs3
    \cup {[A |-> SystemA, b |-> SystemB]}
    \cup {[A |-> InverseA, b |-> ZeroVec(2)]}
    \cup {[A |-> Identity(n), b |-> ZeroVec(n)] : n \in 1..MaxN}
    \cup {[A |-> EigenA, b |-> ZeroVec(4)], [A |-> EigenExerciseA, b |-> ZeroVec(4)]}
    \cup {[A |-> ReactorA, b |-> ReactorB]}

---------------------------------------------------------------------------
(* Linear-algebra cells: bind A and b, call the library, print the check   *)

InitLA ==
    /\ \E inp \in Inputs : A = inp.A /\ b = inp.b
    /\ op = "none"
    /\ pc = "ready"
    /\ W = <<>>
    /\ k = 0
    /\ status = "none"
    /\ result = <<>>
    /\ check = <<>>
    /\ model = "none"
    /\ val = <<>>
    /\ SxIdle
    /\ NbIdle

\* x = np.linalg.solve(A, b)
Solve ==
    /\ pc = "ready"
    /\ op' = "solve"
    /\ W' = Augment(A, AsColumn(b))
    /\ k' = 1
    /\ pc' = "pivot"
    /\ UNCHANGED <<A, b, status, result, check, model, val>>
    /\ UNCHANGED <<sxVars, nbVars>>

\* the reactors' cell passes its A to linalg.solve and to no other call
OnlySolved(M) == M = ReactorA

\* B = linalg.inv(A)
Inv ==
    /\ pc = "ready"
    /\ ~OnlySolved(A)
    /\ op' = "inv"
    /\ W' = Augment(A, Identity(Dim(A)))
    /\ k' = 1
    /\ pc' = "pivot"
    /\ UNCHANGED <<A, b, status, result, check, model, val>>
    /\ UNCHANGED <<sxVars, nbVars>>

\* kappa = linalg.norm(A)*linalg.norm(linalg.inv(A)) : the inner linalg.inv(A)
Cond ==
    /\ pc = "ready"
    /\ ~OnlySolved(A)
    /\ op' = "cond"
    /\ W' = Augment(A, Identity(Dim(A)))
    /\ k' = 1
    /\ pc' = "pivot"
    /\ UNCHANGED <<A, b, status, result, check, model, val>>
    /\ UNCHANGED <<sxVars, nbVars>>

\* sol = linalg.eig(A), for a matrix whose eigenvalues exact arithmetic can hold
Eig ==
    /\ pc = "ready"
    /\ ~OnlySolved(A)
    /\ RationalSpectrum(A)
    /\ op' = "eig"
    /\ W' = A
    /\ k' = 0
    /\ pc' = "eigenvalues"
    /\ UNCHANGED <<A, b, status, result, check, model, val>>
    /\ UNCHANGED <<sxVars, nbVars>>

\* sol[0] : the n eigenvalues, repeated by multiplicity
EigenValues ==
    /\ pc = "eigenvalues"
    /\ result' = [w |-> Roots(CharPoly(W)),
                  vr |-> [i \in 1..Dim(W) |-> ZeroVec(Dim(W))],
                  s |-> [i \in 1..Dim(W) |-> ROne]]
    /\ k' = 1
    /\ pc' = "eigenvector"
    /\ UNCHANGED <<A, b, op, W, status, check, model, val>>
    /\ UNCHANGED <<sxVars, nbVars>>

\* sol[1][:, k] : the eigenvector of eigenvalue k, stored as column k and
\* scaled by its length
EigenVector ==
    /\ pc = "eigenvector"
    /\ LET u == EigenDirection(W, result.w, k)
       IN  result' = [result EXCEPT
                         !.vr = [i \in 1..Dim(W) |-> [@[i] EXCEPT ![k] = u[i]]],
                         !.s = [@ EXCEPT ![k] = RSum([i \in 1..Len(u) |-> RMul(u[i], u[i])])]]
    /\ IF k = Dim(W)
       THEN pc' = "done" /\ k' = k /\ status' = "ok"
       ELSE pc' = "eigenvector" /\ k' = k + 1 /\ status' = status
    /\ UNCHANGED <<A, b, op, W, check, model, val>>
    /\ UNCHANGED <<sxVars, nbVars>>

\* print("Verification: ", A.dot(sol[1][:, 0]) - sol[0][0]*sol[1][:, 0])
PrintVerification ==
    /\ pc = "done" /\ op = "eig"
    /\ check' = Verification(A, result, 1)
    /\ pc' = "verified"
    /\ UNCHANGED <<A, b, op, W, k, status, result, model, val>>
    /\ UNCHANGED <<sxVars, nbVars>>

\* one pivot search: a column of zeros ends the call with SingularMatrix
SelectPivot ==
    /\ pc = "pivot"
    /\ LET p == PivotRow(W, k)
       IN  IF W[p][k] = RZero
           THEN /\ status' = "SingularMatrix"
                /\ pc' = "failed"
                /\ W' = W
           ELSE /\ W' = SwapRows(W, k, p)
                /\ pc' = "eliminate"
                /\ status' = status
    /\ UNCHANGED <<A, b, op, k, result, check, model, val>>
    /\ UNCHANGED <<sxVars, nbVars>>

\* mutant of Eliminate: the elimination done in place, on the caller's A and b
EliminateInPlace ==
    /\ pc = "eliminate"
    /\ W' = EliminateBelow(W, k)
    /\ A' = [i \in 1..Dim(W) |-> SubSeq(W'[i], 1, Dim(W))]
    /\ b' = IF op = "solve" THEN Column(W', Dim(W) + 1) ELSE b
    /\ IF k = Dim(W)
       THEN pc' = "back" /\ k' = k
       ELSE pc' = "pivot" /\ k' = k + 1
    /\ UNCHANGED <<op, status, result, check, model, val>>
    /\ UNCHANGED <<sxVars, nbVars>>

\* one elimination step, on the call's working copy
Eliminate ==
    /\ pc = "eliminate"
    /\ W' = EliminateBelow(W, k)
    /\ IF k = Dim(W)
       THEN pc' = "back" /\ k' = k
       ELSE pc' = "pivot" /\ k' = k + 1
    /\ UNCHANGED <<A, b, op, status, result, check, model, val>>
    /\ UNCHANGED <<sxVars, nbVars>>

BackSubstitute ==
    /\ pc = "back"
    /\ result' = BackSub(W)
    /\ status' = "ok"
    /\ pc' = "done"
    /\ UNCHANGED <<A, b, op, W, k, check, model, val>>
    /\ UNCHANGED <<sxVars, nbVars>>

\* print("Delta:\n", A.dot(x) - b)
PrintDelta ==
    /\ pc = "done" /\ op = "solve"
    /\ check' = Delta(A, Column(result, 1), b)
    /\ pc' = "verified"
    /\ UNCHANGED <<A, b, op, W, k, status, result, model, val>>
    /\ UNCHANGED <<sxVars, nbVars>>

\* mutant of PrintProduct: the element-wise A*B printed in place of A.dot(B)
PrintProductElementwise ==
    /\ pc = "done" /\ op = "inv"
    /\ check' = MatMulElementwise(A, result)
    /\ pc' = "verified"
    /\ UNCHANGED <<A, b, op, W, k, status, result, model, val>>
    /\ UNCHANGED <<sxVars, nbVars>>

\* print("A A^-1 : \n", A.dot(B))
PrintProduct ==
    /\ pc = "done" /\ op = "inv"
    /\ check' = MatMul(A, result)
    /\ pc' = "verified"
    /\ UNCHANGED <<A, b, op, W, k, status, result, model, val>>
    /\ UNCHANGED <<sxVars, nbVars>>

\* print(f"{kappa = }")
PrintKappa ==
    /\ pc = "done" /\ op = "cond"
    /\ check' = KappaSq(A, result)
    /\ pc' = "verified"
    /\ UNCHANGED <<A, b, op, W, k, status, result, model, val>>
    /\ UNCHANGED <<sxVars, nbVars>>

NextLA ==
    \/ Solve
    \/ Inv
    \/ Cond
    \/ SelectPivot
    \/ Eliminate
    \/ BackSubstitute
    \/ PrintDelta
    \/ PrintProduct
    \/ PrintKappa
    \/ Eig
    \/ EigenValues
    \/ EigenVector
    \/ PrintVerification

SpecLA == InitLA /\ [][NextLA]_vars

---------------------------------------------------------------------------
(* The optimization models of LinearOptimization.ipynb                     *)
(* A model is a record: variables, their category and upper bound (lower   *)
(* bound 0 throughout), constraints (coefficients, sense, right-hand       *)
(* side), objective coefficients and sense.                                *)

\* np.inf : no upper bound
Inf == <<1, 0>>

Con(name, coef, sense, rhs) == [name |-> name, coef |-> coef, sense |-> sense, rhs |-> rhs]

\* scipy cell: obj, lhs_ineq, rhs_ineq, bnd
obj == <<-20, -12, -40, -25>>
lhs_ineq == << <<1, 1, 1, 1>>,
               <<3, 2, 1, 0>>,
               <<0, 1, 2, 3>> >>
\* mutant of rhs_ineq: raw material B limited by 100 instead of 90
rhs_ineq_slip == <<50, 100, 100>>

rhs_ineq == <<50, 100, 90>>
bnd == << <<RZero, Inf>>, <<RZero, Inf>>, <<RZero, Inf>>, <<RZero, Inf>> >>

\* linprog(c, A_ub, b_ub, bounds): minimize c.x subject to A_ub x <= b_ub
Linprog(c, A_ub, b_ub, bounds) ==
    [ name  |-> "linprog",
      sense |-> "min",
      vars  |-> [i \in 1..Len(c) |-> i],
      cat   |-> [i \in 1..Len(c) |-> "Continuous"],
      up    |-> [i \in 1..Len(c) |-> bounds[i][2]],
      cons  |-> [r \in 1..Len(A_ub) |-> Con(r, RVec(A_ub[r]), "<=", R(b_ub[r]))],
      obj   |-> RVec(c) ]

LinprogModel == Linprog(obj, lhs_ineq, rhs_ineq, bnd)

\* recorded result of the linprog cell
LinprogResult ==
    [ fun |-> R(-1900), nit |-> 2, slack |-> RVec(<<0, 40, 0>>), status |-> 0,
      x |-> RVec(<<5, 0, 45, 0>>) ]

\* pulp cell: model "resource-allocation"
ResourceAllocation ==
    [ name  |-> "resource-allocation",
      sense |-> "max",
      vars  |-> <<"x1", "x2", "x3", "x4">>,
      cat   |-> <<"Continuous", "Continuous", "Continuous", "Continuous">>,
      up    |-> <<Inf, Inf, Inf, Inf>>,
      cons  |-> << Con("Capacity", RVec(<<1, 1, 1, 1>>), "<=", R(50)),
                   Con("Raw A",    RVec(<<3, 2, 1, 0>>), "<=", R(100)),
                   Con("Raw B",    RVec(<<0, 1, 2, 3>>), "<=", R(90)) >>,
      obj   |-> RVec(<<20, 12, 40, 25>>) ]

\* recorded output of its report cell
ResourceAllocationResult ==
    [ status |-> "Optimal", objective |-> R(1900), values |-> RVec(<<5, 0, 45, 0>>),
      constraints |-> RVec(<<0, -40, 0>>) ]

\* mutant of NonParallelProduction: x1 tied to y3 instead of y1 (copy slip)
NonParallelProductionCopySlip ==
    [ name  |-> "resource_allocation_non_parallel_production",
      sense |-> "max",
      vars  |-> <<"x1", "x2", "x3", "x4", "y1", "y3">>,
      cat   |-> <<"Continuous", "Continuous", "Continuous", "Continuous", "Binary", "Binary">>,
      up    |-> <<Inf, Inf, Inf, Inf, ROne, ROne>>,
      cons  |-> << Con("Capacity", RVec(<<1, 1, 1, 1, 0, 0>>), "<=", R(50)),
                   Con("Raw A",    RVec(<<3, 2, 1, 0, 0, 0>>), "<=", R(100)),
                   Con("Raw B",    RVec(<<0, 1, 2, 3, 0, 0>>), "<=", R(90)),
                   Con("y constraint",  RVec(<<0, 0, 0, 0, 1, 1>>), "<=", R(1)),
                   Con("x3 constraint", RVec(<<0, 0, 1, 0, 0, -50>>), "<=", R(0)),
                   Con("x1 constraint", RVec(<<1, 0, 0, 0, 0, -50>>), "<=", R(0)) >>,
      obj   |-> RVec(<<20, 12, 40, 25, 0, 0>>) ]

\* mutant of NonParallelProduction: y1 + y3 <= 2, the exclusion lost
NonParallelProductionNoExclusion ==
    [ name  |-> "resource_allocation_non_parallel_production",
      sense |-> "max",
      vars  |-> <<"x1", "x2", "x3", "x4", "y1", "y3">>,
      cat   |-> <<"Continuous", "Continuous", "Continuous", "Continuous", "Binary", "Binary">>,
      up    |-> <<Inf, Inf, Inf, Inf, ROne, ROne>>,
      cons  |-> << Con("Capacity", RVec(<<1, 1, 1, 1, 0, 0>>), "<=", R(50)),
                   Con("Raw A",    RVec(<<3, 2, 1, 0, 0, 0>>), "<=", R(100)),
                   Con("Raw B",    RVec(<<0, 1, 2, 3, 0, 0>>), "<=", R(90)),
                   Con("y constraint",  RVec(<<0, 0, 0, 0, 1, 1>>), "<=", R(2)),
                   Con("x3 constraint", RVec(<<0, 0, 1, 0, 0, -50>>), "<=", R(0)),
                   Con("x1 constraint", RVec(<<1, 0, 0, 0, -50, 0>>), "<=", R(0)) >>,
      obj   |-> RVec(<<20, 12, 40, 25, 0, 0>>) ]

\* mutant of NonParallelProduction: Raw B limited by 100 instead of 90
NonParallelProductionRawB100 ==
    [ name  |-> "resource_allocation_non_parallel_production",
      sense |-> "max",
      vars  |-> <<"x1", "x2", "x3", "x4", "y1", "y3">>,
      cat   |-> <<"Continuous", "Continuous", "Continuous", "Continuous", "Binary", "Binary">>,
      up    |-> <<Inf, Inf, Inf, Inf, ROne, ROne>>,
      cons  |-> << Con("Capacity", RVec(<<1, 1, 1, 1, 0, 0>>), "<=", R(50)),
                   Con("Raw A",    RVec(<<3, 2, 1, 0, 0, 0>>), "<=", R(100)),
                   Con("Raw B",    RVec(<<0, 1, 2, 3, 0, 0>>), "<=", R(100)),
                   Con("y constraint",  RVec(<<0, 0, 0, 0, 1, 1>>), "<=", R(1)),
                   Con("x3 constraint", RVec(<<0, 0, 1, 0, 0, -50>>), "<=", R(0)),
                   Con("x1 constraint", RVec(<<1, 0, 0, 0, -50, 0>>), "<=", R(0)) >>,
      obj   |-> RVec(<<20, 12, 40, 25, 0, 0>>) ]

\* mutant of NonParallelProduction: the constant 40 in place of 50
NonParallelProductionBigM40 ==
    [ name  |-> "resource_allocation_non_parallel_production",
      sense |-> "max",
      vars  |-> <<"x1", "x2", "x3", "x4", "y1", "y3">>,
      cat   |-> <<"Continuous", "Continuous", "Continuous", "Continuous", "Binary", "Binary">>,
      up    |-> <<Inf, Inf, Inf, Inf, ROne, ROne>>,
      cons  |-> << Con("Capacity", RVec(<<1, 1, 1, 1, 0, 0>>), "<=", R(50)),
                   Con("Raw A",    RVec(<<3, 2, 1, 0, 0, 0>>), "<=", R(100)),
                   Con("Raw B",    RVec(<<0, 1, 2, 3, 0, 0>>), "<=", R(90)),
                   Con("y constraint",  RVec(<<0, 0, 0, 0, 1, 1>>), "<=", R(1)),
                   Con("x3 constraint", RVec(<<0, 0, 1, 0, 0, -40>>), "<=", R(0)),
                   Con("x1 constraint", RVec(<<1, 0, 0, 0, -40, 0>>), "<=", R(0)) >>,
      obj   |-> RVec(<<20, 12, 40, 25, 0, 0>>) ]

\* pulp cell: model "resource_allocation_non_parallel_production";
\* x3 <= y3*50 is stored as x3 - 50 y3 <= 0, x1 <= y1*50 as x1 - 50 y1 <= 0
NonParallelProduction ==
    [ name  |-> "resource_allocation_non_parallel_production",
      sense |-> "max",
      vars  |-> <<"x1", "x2", "x3", "x4", "y1", "y3">>,
      cat   |-> <<"Continuous", "Continuous", "Continuous", "Continuous", "Binary", "Binary">>,
      up    |-> <<Inf, Inf, Inf, Inf, ROne, ROne>>,
      cons  |-> << Con("Capacity", RVec(<<1, 1, 1, 1, 0, 0>>), "<=", R(50)),
                   Con("Raw A",    RVec(<<3, 2, 1, 0, 0, 0>>), "<=", R(100)),
                   Con("Raw B",    RVec(<<0, 1, 2, 3, 0, 0>>), "<=", R(90)),
                   Con("y constraint",  RVec(<<0, 0, 0, 0, 1, 1>>), "<=", R(1)),
                   Con("x3 constraint", RVec(<<0, 0, 1, 0, 0, -50>>), "<=", R(0)),
                   Con("x1 constraint", RVec(<<1, 0, 0, 0, -50, 0>>), "<=", R(0)) >>,
      obj   |-> RVec(<<20, 12, 40, 25, 0, 0>>) ]

\* recorded output of its report cell
NonParallelProductionResult ==
    [ status |-> "Optimal", objective |-> R(1800), values |-> RVec(<<0, 0, 45, 0, 0, 1>>),
      constraints |-> RVec(<<-5, -55, 0, 0, -5, 0>>) ]

\* mutant of CarFactory: the two profits exchanged
CarFactorySwappedProfit ==
    [ name  |-> "resource-allocation",
      sense |-> "max",
      vars  |-> <<"NA", "NB">>,
      cat   |-> <<"Integer", "Integer">>,
      up    |-> <<Inf, Inf>>,
      cons  |-> << Con("Robot",     RVec(<<3, 4>>), "<=", R(30)),
                   Con("Engineers", RVec(<<5, 6>>), "<=", R(60)),
                   Con("Detailer",  <<Norm(15, 10), R(3)>>, "<=", R(21)) >>,
      obj   |-> RVec(<<45000, 30000>>) ]

\* pulp cell of the car-factory exercise (it reuses the name "resource-allocation")
CarFactory ==
    [ name  |-> "resource-allocation",
      sense |-> "max",
      vars  |-> <<"NA", "NB">>,
      cat   |-> <<"Integer", "Integer">>,
      up    |-> <<Inf, Inf>>,
      cons  |-> << Con("Robot",     RVec(<<3, 4>>), "<=", R(30)),
                   Con("Engineers", RVec(<<5, 6>>), "<=", R(60)),
                   Con("Detailer",  <<Norm(15, 10), R(3)>>, "<=", R(21)) >>,
      obj   |-> RVec(<<30000, 45000>>) ]

\* recorded output of the car-factory cell
CarFactoryResult ==
    [ status |-> "Optimal", objective |-> R(330000), values |-> RVec(<<2, 6>>),
      constraints |-> RVec(<<0, -14, 0>>) ]

\* mutant of TeacherAllocation: 9*x[0][3] typed for 5*x[0][3]
TeacherAllocationCostSlip ==
    [ name  |-> "teacher-allocation",
      sense |-> "max",
      vars  |-> <<"x00", "x01", "x02", "x03", "x04", "x05",
                  "x10", "x11", "x12", "x13", "x14", "x15",
                  "x20", "x21", "x22", "x23", "x24", "x25">>,
      cat   |-> [i \in 1..18 |-> "Binary"],
      up    |-> [i \in 1..18 |-> ROne],
      cons  |-> << Con("teacher A", RVec(<<1,1,1,1,1,1, 0,0,0,0,0,0, 0,0,0,0,0,0>>), "==", R(2)),
                   Con("teacher B", RVec(<<0,0,0,0,0,0, 1,1,1,1,1,1, 0,0,0,0,0,0>>), "==", R(2)),
                   Con("teacher C", RVec(<<0,0,0,0,0,0, 0,0,0,0,0,0, 1,1,1,1,1,1>>), "==", R(2)),
                   Con("total hours", RVec(<<1,1,1,1,1,1, 1,1,1,1,1,1, 1,1,1,1,1,1>>), "==", R(6)) >>,
      obj   |-> RVec(<<8, 7, 6, 9, 6, 7,  9, 9, 8, 8, 4, 4,  7, 6, 9, 6, 9, 9>>) ]

\* pulp cell of the teacher-allocation exercise: x[i][j], i in 0..2, j in 0..5
TeacherAllocation ==
    [ name  |-> "teacher-allocation",
      sense |-> "max",
      vars  |-> <<"x00", "x01", "x02", "x03", "x04", "x05",
                  "x10", "x11", "x12", "x13", "x14", "x15",
                  "x20", "x21", "x22", "x23", "x24", "x25">>,
      cat   |-> [i \in 1..18 |-> "Binary"],
      up    |-> [i \in 1..18 |-> ROne],
      cons  |-> << Con("teacher A", RVec(<<1,1,1,1,1,1, 0,0,0,0,0,0, 0,0,0,0,0,0>>), "==", R(2)),
                   Con("teacher B", RVec(<<0,0,0,0,0,0, 1,1,1,1,1,1, 0,0,0,0,0,0>>), "==", R(2)),
                   Con("teacher C", RVec(<<0,0,0,0,0,0, 0,0,0,0,0,0, 1,1,1,1,1,1>>), "==", R(2)),
                   Con("total hours", RVec(<<1,1,1,1,1,1, 1,1,1,1,1,1, 1,1,1,1,1,1>>), "==", R(6)) >>,
      obj   |-> RVec(<<8, 7, 6, 5, 6, 7,  9, 9, 8, 8, 4, 4,  7, 6, 9, 6, 9, 9>>) ]

\* recorded output of the teacher-allocation cell
TeacherAllocationResult ==
    [ status |-> "Optimal", objective |-> R(51),
      values |-> RVec(<<1, 0, 0, 0, 0, 1,  1, 1, 0, 0, 0, 0,  0, 0, 1, 0, 0, 1>>),
      constraints |-> RVec(<<0, 0, 0, 0>>) ]

\* the continuous relaxation the MILP solver starts from: integer and binary
\* variables become continuous within their bounds
Relax(m) == [m EXCEPT !.cat = [i \in 1..Len(m.cat) |-> "Continuous"]]

---------------------------------------------------------------------------
(* The solver's search, on a grid of points of the model's domain          *)

\* bound: an unbounded continuous variable moves in steps of 5/Res
Res == 1

GridStep == Norm(5, Res)

\* a continuous variable with an upper bound moves in tenths of its range
RelaxStep == <<1, 10>>

StepOf(m, i) ==
    IF m.cat[i] = "Continuous"
    THEN IF m.up[i] = Inf THEN GridStep ELSE RMul(m.up[i], RelaxStep)
    ELSE ROne

\* the value of variable i at grid point v
Value(m, v, i) == RMul(R(v[i]), StepOf(m, i))

Point(m, v) == [i \in 1..Len(v) |-> Value(m, v, i)]

\* constraint.value() + rhs : the left-hand side at point x
Lhs(c, x) == RSum([i \in 1..Len(x) |-> RMul(c.coef[i], x[i])])

\* constraint.value() of pulp: left-hand side minus right-hand side
ConstraintValue(c, x) == RSub(Lhs(c, x), c.rhs)

\* mutant of Slack: the residual A_ub x - b_ub
SlackAsResidual(m, x) == [r \in 1..Len(m.cons) |-> RSub(Lhs(m.cons[r], x), m.cons[r].rhs)]

\* opt.slack of linprog: b_ub - A_ub x
Slack(m, x) == [r \in 1..Len(m.cons) |-> RSub(m.cons[r].rhs, Lhs(m.cons[r], x))]

Holds(c, x) ==
    IF c.sense = "<=" THEN RLeq(Lhs(c, x), c.rhs) ELSE Lhs(c, x) = c.rhs

InBounds(m, x) ==
    \A i \in 1..Len(x) :
        /\ RLeq(RZero, x[i])
        /\ m.up[i] # Inf => RLeq(x[i], m.up[i])
        /\ m.cat[i] # "Continuous" => x[i][2] = 1

\* x satisfies the bounds, the categories and every constraint of m
Feasible(m, x) ==
    /\ InBounds(m, x)
    /\ \A r \in 1..Len(m.cons) : Holds(m.cons[r], x)

\* model.objective.value() at x
Objective(m, x) == RSum([i \in 1..Len(x) |-> RMul(m.obj[i], x[i])])

LCM(a, c) == (a \div GCD(a, c)) * c

RECURSIVE LcmDen(_)
LcmDen(qs) == IF qs = <<>> THEN 1 ELSE LCM(Head(qs)[2], LcmDen(Tail(qs)))

\* the constraints of m in whole grid steps: row r of K and rhs[r] are the
\* coefficients (times the step of each variable) and the right-hand side of
\* constraint r, both multiplied by the least common denominator of the row;
\* cap[i] is the upper bound of variable i in steps (-1: none)
OnGrid(m) ==
    LET n == Len(m.vars)
        KR(r) == [i \in 1..n |-> RMul(m.cons[r].coef[i], StepOf(m, i))]
        L(r) == LcmDen(KR(r) \o <<m.cons[r].rhs>>)
        Whole(q, l) == q[1] * (l \div q[2])
    IN  [ m    |-> m,
          K    |-> [r \in 1..Len(m.cons) |-> [i \in 1..n |-> Whole(KR(r)[i], L(r))]],
          rhs  |-> [r \in 1..Len(m.cons) |-> Whole(m.cons[r].rhs, L(r))],
          eq   |-> [r \in 1..Len(m.cons) |-> m.cons[r].sense # "<="],
          cap  |-> [i \in 1..n |->
                      IF m.up[i] = Inf THEN -1
                      ELSE RDiv(m.up[i], StepOf(m, i))[1] \div RDiv(m.up[i], StepOf(m, i))[2]] ]

RECURSIVE SumProd(_, _, _)
SumProd(a, v, n) == IF n = 0 THEN 0 ELSE a[n] * v[n] + SumProd(a, v, n - 1)

\* Feasible(g.m, Point(g.m, v)), computed in whole steps
GridFeasible(g, v) ==
    /\ \A i \in 1..Len(v) : v[i] >= 0 /\ (g.cap[i] = -1 \/ v[i] <= g.cap[i])
    /\ \A r \in 1..Len(g.K) :
          IF g.eq[r] THEN SumProd(g.K[r], v, Len(v)) = g.rhs[r]
          ELSE SumProd(g.K[r], v, Len(v)) <= g.rhs[r]

\* the search passes through points from which a feasible point can still be
\* reached by raising variables: an equality row may still be short of its
\* right-hand side (its variables not yet set), never beyond it
GridWithin(g, v) ==
    /\ \A i \in 1..Len(v) : v[i] >= 0 /\ (g.cap[i] = -1 \/ v[i] <= g.cap[i])
    /\ \A r \in 1..Len(g.K) : SumProd(g.K[r], v, Len(v)) <= g.rhs[r]

Models ==
    [ linprog |-> LinprogModel,
      allocation |-> ResourceAllocation,
      nonparallel |-> NonParallelProduction,
      nonparallel_relaxed |-> Relax(NonParallelProduction),
      carfactory |-> CarFactory,
      teacher |-> TeacherAllocation ]

ModelKeys == DOMAIN Models

Grids == [key \in ModelKeys |-> OnGrid(Models[key])]

Origin(m) == [i \in 1..Len(m.vars) |-> 0]

InitLP ==
    /\ model = "none"
    /\ val = <<>>
    /\ A = <<>>
    /\ b = <<>>
    /\ op = "none"
    /\ pc = "idle"
    /\ W = <<>>
    /\ k = 0
    /\ status = "none"
    /\ result = <<>>
    /\ check = <<>>
    /\ SxIdle
    /\ NbIdle

\* a model-building cell (model = LpProblem(...), or the arrays of linprog),
\* in the kernel of LinearOptimization.ipynb (pc = "idle"): the global name
\* is bound, the solver will start from the origin
Build(key) ==
    /\ pc = "idle"
    /\ model' = key
    /\ val' = Origin(Models[key])
    /\ UNCHANGED <<laVars, sxVars, nbVars>>

\* one step of the solver's search (linprog, model.solve()): a neighbouring
\* grid point within the constraints
Move(i) ==
    /\ pc = "idle"
    /\ model # "none"
    /\ i \in 1..Len(val)
    /\ LET v == [val EXCEPT ![i] = @ + 1]
       IN  /\ GridWithin(Grids[model], v)
           /\ val' = v
    /\ UNCHANGED <<model>>
    /\ UNCHANGED <<laVars, sxVars, nbVars>>

NextLP ==
    \/ \E key \in ModelKeys : Build(key)
    \/ \E i \in 1..Len(val) : Move(i)

SpecLP == InitLP /\ [][NextLP]_vars

---------------------------------------------------------------------------
(* The simplex state machine behind linprog(..., method="revised simplex") *)
(* Initial -> Phase1 -> Phase2 -> Optimal | Unbounded | Infeasible, on a   *)
(* tableau in exact arithmetic.  The program is brought to the form        *)
(* minimize c.x, A x + s = b, x, s >= 0; column n+i is the slack of row i, *)
(* the columns after n+m are the artificial variables of Phase1; the last  *)
(* column is the right-hand side and the last row the reduced costs.       *)

\* bounds: pivots counted, right-hand sides of the enumerated programs
MaxNit == 20
MaxRhs == 1

\* pivots without progress after which the entering rule falls back to Bland's
CycleThreshold == 6

\* Beale's program, on which the largest-coefficient rule cycles
BealeLP ==
    [ name  |-> "beale",
      sense |-> "min",
      vars  |-> <<1, 2, 3, 4>>,
      cat   |-> <<"Continuous", "Continuous", "Continuous", "Continuous">>,
      up    |-> <<Inf, Inf, Inf, Inf>>,
      cons  |-> << Con(1, <<Norm(1, 4), R(-60), Norm(-1, 25), R(9)>>, "<=", RZero),
                   Con(2, <<Norm(1, 2), R(-90), Norm(-1, 50), R(3)>>, "<=", RZero),
                   Con(3, RVec(<<0, 0, 1, 0>>), "<=", ROne) >>,
      obj   |-> <<Norm(-3, 4), R(150), Norm(-1, 50), R(6)>> ]

Coefs == {-1, 0, 1}

\* every program with two variables and two constraints over Coefs
SmallLPs ==
    {Linprog(c, M, r, <<bnd[1], bnd[2]>>) :
        c \in [1..2 -> Coefs], M \in [1..2 -> [1..2 -> Coefs]],
        r \in [1..2 -> (-MaxRhs)..MaxRhs]}

SimplexInputs == {LinprogModel, BealeLP} \cup SmallLPs

\* the rows whose right-hand side is negative: no trivial feasible basis
NegRows(m) == {i \in 1..Len(m.cons) : RLess(m.cons[i].rhs, RZero)}

\* the number of the artificial variable of row i
ArtOf(m, i) == Cardinality({l \in NegRows(m) : l <= i})

\* row i of the standard form; a row with negative right-hand side is
\* negated and gets an artificial variable
StandardRow(m, i) ==
    LET n == Len(m.vars)
        sg == IF i \in NegRows(m) THEN R(-1) ELSE ROne
    IN  [j \in 1..n |-> RMul(sg, m.cons[i].coef[j])]
        \o [l \in 1..Len(m.cons) |-> IF l = i THEN sg ELSE RZero]
        \o [l \in 1..Cardinality(NegRows(m)) |->
                IF i \in NegRows(m) /\ ArtOf(m, i) = l THEN ROne ELSE RZero]
        \o <<RMul(sg, m.cons[i].rhs)>>

StandardBasis(m) ==
    [i \in 1..Len(m.cons) |->
        IF i \in NegRows(m) THEN Len(m.vars) + Len(m.cons) + ArtOf(m, i)
        ELSE Len(m.vars) + i]

\* the costs of Phase2: the objective, negated for a maximization
Phase2Cost(m) ==
    [j \in 1..Len(m.obj) |-> IF m.sense = "max" THEN RNeg(m.obj[j]) ELSE m.obj[j]]
    \o [i \in 1..Len(m.cons) |-> RZero]

\* the auxiliary costs of Phase1: the sum of the artificial variables
Phase1Cost(m) ==
    [j \in 1..(Len(m.vars) + Len(m.cons)) |-> RZero]
    \o [l \in 1..Cardinality(NegRows(m)) |-> ROne]

\* reduced costs c_j - z_j of the rows under a basis, and minus the objective
ReducedCosts(rows, bs, cost) ==
    [j \in 1..(Len(cost) + 1) |->
        RSub(IF j <= Len(cost) THEN cost[j] ELSE RZero,
             RSum([i \in 1..Len(bs) |-> RMul(cost[bs[i]], rows[i][j])]))]

Rhs(Tt) == Len(Tt[1])

\* the columns that improve the objective
NegCols(Tt) == {j \in 1..(Rhs(Tt) - 1) : RLess(Tt[Len(Tt)][j], RZero)}

\* Bland's rule: the improving column of smallest index
EnteringSmallestIndex(Tt) == CHOOSE j \in NegCols(Tt) : \A l \in NegCols(Tt) : j <= l

\* mutant of EnteringDantzig: the least negative reduced cost
EnteringLeastImproving(Tt) ==
    CHOOSE j \in NegCols(Tt) :
        \A l \in NegCols(Tt) :
            /\ RLeq(Tt[Len(Tt)][l], Tt[Len(Tt)][j])
            /\ Tt[Len(Tt)][l] = Tt[Len(Tt)][j] => j <= l

\* Dantzig's rule: the most negative reduced cost (the first of equal ones)
EnteringDantzig(Tt) ==
    CHOOSE j \in NegCols(Tt) :
        \A l \in NegCols(Tt) :
            /\ RLeq(Tt[Len(Tt)][j], Tt[Len(Tt)][l])
            /\ Tt[Len(Tt)][l] = Tt[Len(Tt)][j] => j <= l

\* mutant of UseBland: no fallback
NeverBland(n) == FALSE

\* cycling detection: n pivots in a row have not changed the objective
UseBland(n) == n >= CycleThreshold

Entering(Tt, n) == IF UseBland(n) THEN EnteringSmallestIndex(Tt) ELSE EnteringDantzig(Tt)

\* ratio test: the rows with a positive entry in the entering column
RatioRows(Tt, e) == {i \in 1..(Len(Tt) - 1) : RLess(RZero, Tt[i][e])}

Ratio(Tt, i, e) == RDiv(Tt[i][Rhs(Tt)], Tt[i][e])

\* the row of smallest ratio; ties go to the basic variable of smallest index
Leaving(Tt, bs, e) ==
    CHOOSE i \in RatioRows(Tt, e) :
        \A l \in RatioRows(Tt, e) :
            /\ RLeq(Ratio(Tt, i, e), Ratio(Tt, l, e))
            /\ Ratio(Tt, l, e) = Ratio(Tt, i, e) => bs[i] <= bs[l]

\* the tableau after a pivot on row r, column e
Pivot(Tt, r, e) ==
    LET piv == VecOf([j \in 1..Rhs(Tt) |-> RDiv(Tt[r][j], Tt[r][e])], Rhs(Tt))
    IN  [i \in 1..Len(Tt) |->
            IF i = r THEN piv
            ELSE [j \in 1..Rhs(Tt) |-> RSub(Tt[i][j], RMul(Tt[i][e], piv[j]))]]

\* at the end of Phase1 every artificial variable still basic (at level
\* zero) leaves the basis for the first structural or slack column of its row
RECURSIVE DriveOut(_, _, _, _)
DriveOut(Tt, bs, i, nm) ==
    IF i > Len(bs) THEN [T |-> Tt, basis |-> bs]
    ELSE IF bs[i] <= nm THEN DriveOut(Tt, bs, i + 1, nm)
    ELSE LET j == CHOOSE c \in 1..nm :
                      Tt[i][c] # RZero /\ \A l \in 1..(c - 1) : Tt[i][l] = RZero
         IN  DriveOut(MatOf(Pivot(Tt, i, j), Len(Tt), Rhs(Tt)), [bs EXCEPT ![i] = j], i + 1, nm)

\* the constraint rows without the artificial columns
DropArtificials(Tt, nm) ==
    [i \in 1..(Len(Tt) - 1) |-> SubSeq(Tt[i], 1, nm) \o <<Tt[i][Rhs(Tt)]>>]

\* the vertex of the basis: opt.x
SxX(m, Tt, bs) ==
    [j \in 1..Len(m.vars) |->
        IF \E i \in 1..Len(bs) : bs[i] = j
        THEN Tt[CHOOSE i \in 1..Len(bs) : bs[i] = j][Rhs(Tt)]
        ELSE RZero]

\* the objective c.x of the basis, in the sense of the program: opt.fun
SxFun(m, Tt) ==
    IF m.sense = "max" THEN Tt[Len(Tt)][Rhs(Tt)] ELSE RNeg(Tt[Len(Tt)][Rhs(Tt)])

Terminal == {"Optimal", "Infeasible", "Unbounded"}

InitSimplex ==
    /\ lp \in SimplexInputs
    /\ T = <<>>
    /\ basis = <<>>
    /\ phase = "Initial"
    /\ nit = 0
    /\ stall = 0
    /\ model = "none"
    /\ val = <<>>
    /\ A = <<>>
    /\ b = <<>>
    /\ op = "none"
    /\ pc = "simplex"
    /\ W = <<>>
    /\ k = 0
    /\ status = "none"
    /\ result = <<>>
    /\ check = <<>>
    /\ NbIdle

\* Initial: build the standard form; Phase1 only if a right-hand side is negative
BuildStandardForm ==
    /\ phase = "Initial"
    /\ LET rows == [i \in 1..Len(lp.cons) |-> StandardRow(lp, i)]
           bs == StandardBasis(lp)
           cost == IF NegRows(lp) = {} THEN Phase2Cost(lp) ELSE Phase1Cost(lp)
       IN  /\ T' = MatOf(Append(rows, ReducedCosts(rows, bs, cost)),
                         Len(rows) + 1, Len(cost) + 1)
           /\ basis' = bs
    /\ phase' = IF NegRows(lp) = {} THEN "Phase2" ELSE "Phase1"
    /\ UNCHANGED <<lp, nit, stall>>
    /\ UNCHANGED <<laVars, lpVars, nbVars>>

\* one pivot of Phase1 or Phase2: entering column, ratio test, row operations
PivotStep ==
    /\ phase \in {"Phase1", "Phase2"}
    /\ NegCols(T) # {}
    /\ LET e == Entering(T, stall)
       IN  /\ RatioRows(T, e) # {}
           /\ LET r == Leaving(T, basis, e)
                  Tn == MatOf(Pivot(T, r, e), Len(T), Rhs(T))
              IN  /\ T' = Tn
                  /\ basis' = [basis EXCEPT ![r] = e]
                  /\ stall' = IF Tn[Len(T)][Rhs(T)] = T[Len(T)][Rhs(T)]
                              THEN (IF stall < CycleThreshold THEN stall + 1 ELSE stall)
                              ELSE 0
    /\ nit' = IF nit < MaxNit THEN nit + 1 ELSE nit
    /\ UNCHANGED <<lp, phase>>
    /\ UNCHANGED <<laVars, lpVars, nbVars>>

\* Phase1 -> Infeasible: the auxiliary objective cannot reach zero
Phase1ToInfeasible ==
    /\ phase = "Phase1"
    /\ NegCols(T) = {}
    /\ T[Len(T)][Rhs(T)] # RZero
    /\ phase' = "Infeasible"
    /\ UNCHANGED <<lp, T, basis, nit, stall>>
    /\ UNCHANGED <<laVars, lpVars, nbVars>>

\* Phase1 -> Phase2: a feasible basis is found; the true objective takes over
Phase1ToPhase2 ==
    /\ phase = "Phase1"
    /\ NegCols(T) = {}
    /\ T[Len(T)][Rhs(T)] = RZero
    /\ LET nm == Len(lp.vars) + Len(lp.cons)
           d == DriveOut(T, basis, 1, nm)
           rows == DropArtificials(d.T, nm)
       IN  /\ T' = MatOf(Append(rows, ReducedCosts(rows, d.basis, Phase2Cost(lp))),
                         Len(T), nm + 1)
           /\ basis' = d.basis
    /\ phase' = "Phase2"
    /\ stall' = 0
    /\ UNCHANGED <<lp, nit>>
    /\ UNCHANGED <<laVars, lpVars, nbVars>>

\* Phase2 -> Unbounded: the entering column has no candidate in the ratio test
Phase2ToUnbounded ==
    /\ phase = "Phase2"
    /\ NegCols(T) # {}
    /\ RatioRows(T, Entering(T, stall)) = {}
    /\ phase' = "Unbounded"
    /\ UNCHANGED <<lp, T, basis, nit, stall>>
    /\ UNCHANGED <<laVars, lpVars, nbVars>>

\* Phase2 -> Optimal: no entering variable improves the objective
Phase2ToOptimal ==
    /\ phase = "Phase2"
    /\ NegCols(T) = {}
    /\ phase' = "Optimal"
    /\ UNCHANGED <<lp, T, basis, nit, stall>>
    /\ UNCHANGED <<laVars, lpVars, nbVars>>

NextSimplex ==
    \/ BuildStandardForm
    \/ PivotStep
    \/ Phase1ToInfeasible
    \/ Phase1ToPhase2
    \/ Phase2ToUnbounded
    \/ Phase2ToOptimal

\* a step of NextSimplex is possible: the disjunction of the actions' guards
CanStep ==
    \/ phase = "Initial"
    \/ phase = "Phase1" /\ (NegCols(T) = {} \/ RatioRows(T, Entering(T, stall)) # {})
    \/ phase = "Phase2"

\* the solver is a call that runs to its return: a step that stays possible
\* is taken. This is weak fairness of NextSimplex with its enabling
\* condition written out as CanStep.
SimplexFair == []<>(~CanStep) \/ []<><<NextSimplex>>_vars

SpecSimplex == InitSimplex /\ [][NextSimplex]_vars /\ SimplexFair

---------------------------------------------------------------------------
(* The kernel of LinearOptimization.ipynb.  Its cells can be executed in   *)
(* any order, any number of times; they share the global names.  names     *)
(* maps each bound global to the model whose cell bound it, ran lists the  *)
(* cells executed, out what each of them printed.                          *)

\* bound: the number of cell executions followed
MaxRuns == 6

\* the pulp cells, in the order of the document
DocumentOrder ==
    <<"build_allocation", "report_allocation", "build_nonparallel", "report_nonparallel",
      "carfactory", "teacher">>

Cells == {DocumentOrder[i] : i \in 1..Len(DocumentOrder)}

\* the model each building cell binds to the global name model
Builds ==
    [ build_allocation |-> "allocation",
      build_nonparallel |-> "nonparallel",
      carfactory |-> "carfactory",
      teacher |-> "teacher" ]

\* the globals each building cell binds
Binds ==
    [ build_allocation |-> {"model", "x1", "x2", "x3", "x4"},
      build_nonparallel |-> {"model", "x1", "x2", "x3", "x4", "y1", "y3"},
      carfactory |-> {"model", "NA", "NB"},
      teacher |-> {"model", "x"} ]

\* the globals each report cell reads, in the order it reads them
Reads ==
    [ report_allocation |-> <<"model", "x1", "x2", "x3", "x4">>,
      report_nonparallel |-> <<"model", "x1", "x2", "x3", "x4", "y1", "y3">> ]

\* what model.solve() and the prints that follow give for each model
Recorded ==
    [ allocation |-> ResourceAllocationResult,
      nonparallel |-> NonParallelProductionResult,
      carfactory |-> CarFactoryResult,
      teacher |-> TeacherAllocationResult ]

\* assignment of the names S in the cell of model key
Bind(nm, S, key) == [n \in (DOMAIN nm) \cup S |-> IF n \in S THEN key ELSE nm[n]]

\* the first name of rd that is not bound ("none": all are): the NameError
FirstUnbound(nm, rd) ==
    IF \A i \in 1..Len(rd) : rd[i] \in DOMAIN nm THEN "none"
    ELSE rd[CHOOSE i \in 1..Len(rd) :
                /\ rd[i] \notin DOMAIN nm
                /\ \A j \in 1..(i - 1) : rd[j] \in DOMAIN nm]

\* mutant of ReportedModel: the model of the cell above the report cell
ModelAbove(cell, nm) ==
    IF cell = "report_allocation" THEN "allocation" ELSE "nonparallel"

\* the model a report cell solves and prints: whatever model is bound to
ReportedModel(cell, nm) == nm["model"]

\* what a cell prints: status and objective of a model (objective <<>>: not
\* reached), the model whose variables x1.. it prints, the name that stopped it
Printed(cell, key, objective, of, err) ==
    [cell |-> cell, model |-> key, objective |-> objective, vars |-> of, error |-> err]

InitNB ==
    /\ names = <<>>
    /\ out = <<>>
    /\ ran = <<>>
    /\ model = "none"
    /\ val = <<>>
    /\ A = <<>>
    /\ b = <<>>
    /\ op = "none"
    /\ pc = "kernel"
    /\ W = <<>>
    /\ k = 0
    /\ status = "none"
    /\ result = <<>>
    /\ check = <<>>
    /\ SxIdle

\* a cell that builds a model: model = LpProblem(...), x1 = LpVariable(...), ...
BuildCell(cell) ==
    /\ pc = "kernel"
    /\ Len(ran) < MaxRuns
    /\ cell \in {"build_allocation", "build_nonparallel"}
    /\ names' = Bind(names, Binds[cell], Builds[cell])
    /\ out' = Append(out, Printed(cell, "none", <<>>, "none", "none"))
    /\ ran' = Append(ran, cell)
    /\ UNCHANGED <<laVars, lpVars, sxVars>>

\* a report cell: model.solve(), then status, objective, x1.value(), ...
\* read from the globals; an unbound name ends the cell with NameError
ReportCell(cell) ==
    /\ pc = "kernel"
    /\ Len(ran) < MaxRuns
    /\ cell \in DOMAIN Reads
    /\ LET err == FirstUnbound(names, Reads[cell])
       IN  out' = Append(out,
                IF err = "model" THEN Printed(cell, "none", <<>>, "none", err)
                ELSE Printed(cell, ReportedModel(cell, names),
                             <<Recorded[ReportedModel(cell, names)].objective>>,
                             IF "x1" \in DOMAIN names THEN names["x1"] ELSE "none",
                             err))
    /\ ran' = Append(ran, cell)
    /\ UNCHANGED names
    /\ UNCHANGED <<laVars, lpVars, sxVars>>

\* a cell that builds, solves and reports in one: car factory, teachers
WholeCell(cell) ==
    /\ pc = "kernel"
    /\ Len(ran) < MaxRuns
    /\ cell \in {"carfactory", "teacher"}
    /\ names' = Bind(names, Binds[cell], Builds[cell])
    /\ out' = Append(out, Printed(cell, Builds[cell], <<Recorded[Builds[cell]].objective>>,
                                  Builds[cell], "none"))
    /\ ran' = Append(ran, cell)
    /\ UNCHANGED <<laVars, lpVars, sxVars>>

NextNB ==
    \/ \E cell \in Cells : BuildCell(cell)
    \/ \E cell \in Cells : ReportCell(cell)
    \/ \E cell \in Cells : WholeCell(cell)

SpecNB == InitNB /\ [][NextNB]_vars

Init == InitLA \/ InitLP \/ InitSimplex \/ InitNB

Next == NextLA \/ NextLP \/ NextSimplex \/ NextNB

Spec == Init /\ [][Next]_vars

---------------------------------------------------------------------------
(* Helpers of the properties                                               *)

\* the printed tolerance: three decimals
Eps == <<1, 1000>>

ApproxVec(u, v) ==
    /\ Len(u) = Len(v)
    /\ \A i \in 1..Len(u) : RLeq(RAbs(RSub(u[i], v[i])), Eps)

ApproxMat(M, N) ==
    /\ Len(M) = Len(N)
    /\ \A i \in 1..Len(M) : ApproxVec(M[i], N[i])

\* determinant by cofactor expansion along the first row (independent of
\* the elimination above)
RECURSIVE Det(_)
Det(M) ==
    IF Len(M) = 1 THEN M[1][1]
    ELSE LET n == Len(M)
             Minor(j) == [i \in 1..(n - 1) |->
                            [c \in 1..(n - 1) |-> M[i + 1][IF c < j THEN c ELSE c + 1]]]
             Sign(j) == IF j % 2 = 1 THEN ROne ELSE R(-1)
         IN  RSum([j \in 1..n |-> RMul(Sign(j), RMul(M[1][j], Det(Minor(j))))])

Ones2 == RMat(<< <<1, 1>>, <<1, 1>> >>)

---------------------------------------------------------------------------
(* Properties of the linear-algebra cells (checked under SpecLA)           *)

SystemSolved == A = SystemA /\ b = SystemB /\ op = "solve" /\ pc = "verified"

\* C3, as stated: solving the worked system gives x ~ [11.772, 17.322, 32.34]
\* and that x has residual A x - b ~ 0.
C3_SolutionAsClaimed ==
    SystemSolved =>
        /\ ApproxVec(Column(result, 1), << Norm(11772, 1000), Norm(17322, 1000), Norm(3234, 100) >>)
        /\ ApproxVec(check, ZeroVec(3))

\* C3, amended: solving the worked system gives x ~ [41.202, 55.917, 71.613],
\* the printed Delta A x - b is zero there, and the system has no other
\* solution (det A # 0); the vector [11.772, 17.322, 32.34] is not a solution.
C3_SolutionAmended ==
    SystemSolved =>
        /\ status = "ok"
        /\ ApproxVec(Column(result, 1), << Norm(41202, 1000), Norm(55917, 1000), Norm(71613, 1000) >>)
        /\ ApproxVec(check, ZeroVec(3))
        /\ Det(A) # RZero
        /\ ~ApproxVec(Delta(A, << Norm(11772, 1000), Norm(17322, 1000), Norm(3234, 100) >>, b),
                      ZeroVec(3))

C3_Witness == SystemSolved /\ status = "ok" /\ Len(check) = 3

\* C7, as stated: kappa = linalg.norm(A)*linalg.norm(linalg.inv(A)) of the
\* n x n identity is 1 for every n >= 1 (kappa = 1 iff kappa^2 = 1).
C7_IdentityKappaIsOne ==
    \A n \in 1..MaxN :
        (A = Identity(n) /\ op = "cond" /\ pc = "verified") => check = ROne

\* C8: [[1,1],[1,1]] given to solve (any b) or inv ends in SingularMatrix and
\* never in a numeric result; in general a call fails with SingularMatrix
\* exactly when a pivot column has largest absolute entry zero, which happens
\* exactly for the matrices of determinant zero.
C8_SingularMatrixOutcome ==
    /\ (A = Ones2 /\ op \in {"solve", "inv", "cond"}) =>
            /\ pc \in {"pivot", "eliminate", "failed"}
            /\ status # "ok"
            /\ result = <<>>
            /\ (k = 2 /\ pc # "pivot" => pc = "failed")
    /\ status = "SingularMatrix" <=> pc = "failed"
    /\ pc = "failed" =>
            /\ \A i \in k..Dim(W) : W[i][k] = RZero
            /\ result = <<>>
            /\ Det(A) = RZero
    /\ pc = "eliminate" => W[k][k] # RZero
    /\ (op \in {"solve", "inv", "cond"} /\ pc \in {"back", "done", "verified"}) => Det(A) # RZero

C8_Witness ==
    /\ A = Ones2 /\ b = << R(1), R(-1) >>
    /\ op = "solve" /\ pc = "failed" /\ status = "SingularMatrix"

\* C9: for every invertible A the printed product A . inv(A) is the identity;
\* for A = [[1,2],[3,4]] the inverse is [[-2,1],[1.5,-0.5]].
C9_InverseProduct ==
    /\ (op = "inv" /\ pc = "verified") => ApproxMat(check, Identity(Dim(A)))
    /\ (op = "inv" /\ Det(A) # RZero) => pc # "failed"
    /\ (A = InverseA /\ op = "inv" /\ pc \in {"done", "verified"}) =>
            result = << <<R(-2), R(1)>>, <<Norm(3, 2), Norm(-1, 2)>> >>

C9_Witness ==
    /\ A = InverseA /\ op = "inv" /\ pc = "verified"
    /\ check = Identity(2)

\* C10: for every invertible A and every b, solve(A, b) returns x whose
\* printed residual A x - b is zero.
C10_SolveResidual ==
    /\ (op = "solve" /\ pc = "verified") =>
            /\ Len(result) = Dim(A)
            /\ ApproxVec(check, ZeroVec(Dim(A)))
    /\ (op = "solve" /\ Det(A) # RZero) => pc # "failed"

C10_Witness ==
    /\ op = "solve" /\ pc = "verified"
    /\ A = RMat(<< <<0, 1>>, <<1, 1>> >>) /\ b = << R(1), R(-1) >>
    /\ Column(result, 1) = << R(-2), R(1) >>

C12_SolveLeavesInputs ==
    [][(op' = "solve") => (A' = A /\ b' = b)]_vars

C12_Witness ==
    /\ op = "solve" /\ pc = "failed" /\ k = 2
    /\ A = RMat(<< <<1, 1, 0>>, <<1, 1, 1>>, <<0, 0, 1>> >>)
    /\ b = RVec(<<1, 2, 3>>)
    /\ W # Augment(A, AsColumn(b))

\* the balance equations of the reactors' cell, as its comments give them
\* with the constants put in: row i is equation i
ReactorEquations ==
    [ A |-> RMat(<< <<9, 0, -3, 0, 0>>,
                    <<4, -4, 0, 0, 0>>,
                    <<0, 2, -9, 0, 0>>,
                    <<0, 1, 6, -9, 2>>,
                    <<5, 1, 0, 0, -6>> >>),
      b |-> RVec(<<120, 0, -350, 0, 0>>) ]

C17_Assembled ==
    /\ ReactorA = ReactorEquations.A
    /\ ReactorB = ReactorEquations.b
    /\ Det(ReactorA) # RZero

ReactorSolved == A = ReactorA /\ b = ReactorB /\ op = "solve" /\ pc = "verified"

\* C17: the A and b the reactors' cell assembles from the flow constants are
\* the five commented balance equations (9c1 - 3c3 = 120, 4c1 - 4c2 = 0,
\* 2c2 - 9c3 = -350, c2 + 6c3 - 9c4 + 2c5 = 0, 5c1 + c2 - 6c5 = 0), row by
\* row; the system has exactly one solution (det A # 0), solve returns it,
\* and the printed check A.dot(c) - b is zero.
C17_ReactorSystem ==
    /\ C17_Assembled
    /\ ReactorSolved =>
          /\ status = "ok"
          /\ check = ZeroVec(5)
          /\ Delta(ReactorEquations.A, Column(result, 1), ReactorEquations.b) = ZeroVec(5)
          /\ Column(result, 1)
                = <<Norm(142, 5), Norm(142, 5), Norm(226, 5), Norm(198, 5), Norm(142, 5)>>

C17_Witness ==
    /\ ReactorSolved
    /\ status = "ok"
    /\ Column(result, 1)[4] = Norm(198, 5)
    /\ check = ZeroVec(5)

---------------------------------------------------------------------------
(* Properties of the simplex state machine (checked under SpecSimplex)     *)

\* what a run of the state machine keeps true: the basis stays feasible, only
\* a terminal state is left by no step, Optimal carries a feasible vertex
\* that no improving column is left at, Infeasible needs a Phase1
SimplexSound ==
    /\ phase \in {"Initial", "Phase1", "Phase2"} \cup Terminal
    /\ phase # "Initial" => \A i \in 1..Len(basis) : RLeq(RZero, T[i][Rhs(T)])
    /\ phase = "Optimal" =>
          /\ Feasible(lp, SxX(lp, T, basis))
          /\ Objective(lp, SxX(lp, T, basis)) = SxFun(lp, T)
          /\ NegCols(T) = {}
    /\ phase = "Infeasible" => NegRows(lp) # {}
    /\ phase \in Terminal <=> ~CanStep

\* C13: every run of the solver ends, in exactly one of Optimal, Infeasible
\* and Unbounded (it never pivots forever), and for the resource-allocation
\* program it ends in Optimal (status 0).
C13_SolverTerminates ==
    /\ <>(phase \in Terminal)
    /\ [](SimplexSound)
    /\ [](lp = LinprogModel /\ phase \in Terminal =>
              phase = "Optimal" /\ LinprogResult.status = 0)

C13_Witness ==
    /\ lp = BealeLP
    /\ phase = "Optimal"
    /\ nit > CycleThreshold
    /\ SxFun(lp, T) = Norm(-1, 20)

\* the columns a pivot step brings into the basis
EnteredBy(bs, bsn) == {bsn[i] : i \in 1..Len(bsn)} \ {bs[i] : i \in 1..Len(bs)}

\* C15: on the resource-allocation program no right-hand side is negative,
\* so the run goes from Initial to Phase2 and never through Phase1; every
\* Phase2 state that is not optimal has an entering variable chosen by the
\* pivot rule (and a row for it); the first pivot brings in x3, the second
\* x1, and after exactly 2 pivots the run is in Optimal with objective 1900
\* (fun -1900 for the minimized negation) at x = (5, 0, 45, 0), nit = 2.
C15_AllocationRun ==
    /\ [](lp = LinprogModel =>
            /\ NegRows(lp) = {}
            /\ phase # "Phase1"
            /\ nit <= LinprogResult.nit
            /\ (phase = "Phase2" /\ NegCols(T) # {}) =>
                  /\ Entering(T, stall) = EnteringDantzig(T)
                  /\ Entering(T, stall) = (IF nit = 0 THEN 3 ELSE 1)
                  /\ RatioRows(T, Entering(T, stall)) # {}
            /\ (phase = "Phase2" /\ NegCols(T) = {}) => nit = LinprogResult.nit
            /\ phase = "Optimal" =>
                  /\ nit = LinprogResult.nit
                  /\ SxFun(lp, T) = LinprogResult.fun
                  /\ SxX(lp, T, basis) = LinprogResult.x
                  /\ Objective(ResourceAllocation, SxX(lp, T, basis)) = R(1900))
    /\ [][(lp = LinprogModel /\ nit' # nit) =>
            /\ nit' = nit + 1
            /\ EnteredBy(basis, basis') = (IF nit = 0 THEN {3} ELSE {1})]_vars
    /\ (lp = LinprogModel => <>(phase = "Optimal"))

C15_Witness ==
    /\ lp = LinprogModel
    /\ phase = "Optimal"
    /\ nit = 2
    /\ basis = <<1, 6, 3>>
    /\ SxFun(lp, T) = R(-1900)

---------------------------------------------------------------------------
(* Properties of the optimization models (checked under SpecLP)            *)

\* the solver's current point, in the model's units
Here == Point(Models[model], val)

ObjectiveHere == Objective(Models[model], Here)

\* Weak duality for  max c.x  s.t.  rows r: a_r.x <= b_r,  x >= 0 :
\* multipliers lam >= 0 with  sum_r lam_r a_r >= c  component-wise bound c.x
\* by sum_r lam_r b_r at EVERY real feasible x, on or off the grid.
DualBound(m, lam, z) ==
    /\ m.sense = "max"
    /\ Len(lam) = Len(m.cons)
    /\ \A r \in 1..Len(m.cons) : m.cons[r].sense = "<=" /\ RLeq(RZero, lam[r])
    /\ \A i \in 1..Len(m.vars) :
          RLeq(m.obj[i], RSum([r \in 1..Len(m.cons) |-> RMul(lam[r], m.cons[r].coef[i])]))
    /\ RLeq(RSum([r \in 1..Len(m.cons) |-> RMul(lam[r], m.cons[r].rhs)]), z)

\* m with its variables after the n-th fixed to the values ys
FixTail(m, n, ys) ==
    [ name  |-> m.name,
      sense |-> m.sense,
      vars  |-> SubSeq(m.vars, 1, n),
      cat   |-> SubSeq(m.cat, 1, n),
      up    |-> SubSeq(m.up, 1, n),
      cons  |-> [r \in 1..Len(m.cons) |->
                   Con(m.cons[r].name, SubSeq(m.cons[r].coef, 1, n), m.cons[r].sense,
                       RSub(m.cons[r].rhs,
                            RSum([j \in 1..Len(ys) |-> RMul(m.cons[r].coef[n + j], ys[j])])))],
      obj   |-> SubSeq(m.obj, 1, n) ]

\* multipliers of Capacity, Raw A, Raw B certifying the bound 1900
AllocationDuals == RVec(<<20, 0, 10>>)

\* per choice of (y1, y3): multipliers of the six constraints certifying 1800
NonParallelDuals ==
    [ y \in {<<0, 0>>, <<1, 0>>, <<0, 1>>, <<1, 1>>} |->
        CASE y = <<0, 0>> -> RVec(<<25, 0, 0, 0, 15, 0>>)
          [] y = <<1, 0>> -> RVec(<<25, 0, 0, 0, 15, 0>>)
          [] y = <<0, 1>> -> RVec(<<0, 0, 20, 0, 0, 20>>)
          [] y = <<1, 1>> -> RVec(<<20, 0, 10, 100, 0, 0>>) ]

C1_Recorded ==
    /\ Feasible(ResourceAllocation, ResourceAllocationResult.values)
    /\ Objective(ResourceAllocation, ResourceAllocationResult.values) = R(1900)
    /\ ResourceAllocationResult.objective = R(1900)
    /\ Feasible(LinprogModel, LinprogResult.x)
    /\ Objective(LinprogModel, LinprogResult.x) = R(-1900)
    /\ LinprogResult.fun = R(-1900)
    /\ LinprogResult.x = RVec(<<5, 0, 45, 0>>)
    /\ LinprogModel.cons = [r \in 1..3 |-> Con(r, ResourceAllocation.cons[r].coef, "<=",
                                                  ResourceAllocation.cons[r].rhs)]
    /\ LinprogModel.obj = [i \in 1..4 |-> RNeg(ResourceAllocation.obj[i])]
    /\ DualBound(ResourceAllocation, AllocationDuals, R(1900))

\* C1: the resource-allocation LP has optimal objective 1900, attained at
\* x = [5, 0, 45, 0]: that point is feasible (scipy and pulp formulation) and
\* no feasible point has a larger objective (every grid point the search
\* reaches, and by the dual multipliers every real point).
C1_AllocationOptimum ==
    /\ C1_Recorded
    /\ model = "allocation" => RLeq(ObjectiveHere, R(1900))
    /\ model = "linprog" => RLeq(R(-1900), ObjectiveHere)

C1_Witness ==
    /\ model = "linprog"
    /\ Here = RVec(<<5, 0, 45, 0>>)
    /\ ObjectiveHere = R(-1900)

C2_Recorded ==
    /\ Feasible(NonParallelProduction, NonParallelProductionResult.values)
    /\ Objective(NonParallelProduction, NonParallelProductionResult.values) = R(1800)
    /\ NonParallelProductionResult.objective = R(1800)
    /\ NonParallelProductionResult.values = RVec(<<0, 0, 45, 0, 0, 1>>)
    /\ \A i \in 5..6 : NonParallelProduction.obj[i] = RZero
    /\ \A y \in DOMAIN NonParallelDuals :
          DualBound(FixTail(NonParallelProduction, 4, RVec(y)), NonParallelDuals[y], R(1800))

\* C2: the binary model has optimal objective 1800, attained with x3 = 45,
\* x1 = x2 = x4 = 0, y1 = 0, y3 = 1, and no feasible assignment with binary
\* y1, y3 has a larger objective.
C2_BinaryOptimum ==
    /\ C2_Recorded
    /\ model = "nonparallel" =>
          /\ RLeq(ObjectiveHere, R(1800))
          /\ ObjectiveHere = R(1800) => Here = NonParallelProductionResult.values

C2_Witness ==
    /\ model = "nonparallel"
    /\ Here = RVec(<<0, 0, 45, 0, 0, 1>>)
    /\ ObjectiveHere = R(1800)

C4_Recorded ==
    /\ Feasible(CarFactory, CarFactoryResult.values)
    /\ Objective(CarFactory, CarFactoryResult.values) = R(330000)
    /\ CarFactoryResult.objective = R(330000)
    /\ CarFactoryResult.values = RVec(<<2, 6>>)

\* C4: the car-factory integer program has its optimum at NA = 2, NB = 6 with
\* profit 330000, and no other feasible integer pair reaches 330000 or more.
C4_CarFactoryOptimum ==
    /\ C4_Recorded
    /\ model = "carfactory" =>
          /\ RLeq(ObjectiveHere, R(330000))
          /\ RLeq(R(330000), ObjectiveHere) => val = <<2, 6>>

C4_Witness ==
    /\ model = "carfactory"
    /\ val = <<2, 6>>
    /\ ObjectiveHere = R(330000)

\* C5: in every feasible assignment of the binary model products 1 and 3 are
\* never produced together: x1 > 0 implies x3 = 0 and x3 > 0 implies x1 = 0.
C5_NeverTogether ==
    model = "nonparallel" =>
        /\ Feasible(NonParallelProduction, Here)
        /\ RLess(RZero, Here[1]) => Here[3] = RZero
        /\ RLess(RZero, Here[3]) => Here[1] = RZero

C5_Witness ==
    /\ model = "nonparallel"
    /\ RLess(RZero, Here[1])
    /\ Here[5] = ROne
    /\ Here[3] = RZero

C6_Recorded ==
    /\ Feasible(Relax(NonParallelProduction), NonParallelProductionResult.values)
    /\ Objective(Relax(NonParallelProduction), NonParallelProductionResult.values) = R(1800)
    /\ RLeq(NonParallelProductionResult.objective, ResourceAllocationResult.objective)

\* C6: a maximization model with integer or binary variables never beats its
\* own continuous relaxation: every point feasible for the model is feasible
\* for the relaxation with the same objective; for the binary model the
\* integer optimum 1800 is attained in the relaxation, and every point of the
\* relaxation is, in x, a point of the LP without y, so at most 1900.
C6_RelaxationBound ==
    /\ C6_Recorded
    /\ model \in {"nonparallel", "carfactory"} =>
          /\ Feasible(Relax(Models[model]), Here)
          /\ Objective(Relax(Models[model]), Here) = ObjectiveHere
    /\ model = "nonparallel_relaxed" =>
          /\ Feasible(ResourceAllocation, SubSeq(Here, 1, 4))
          /\ Objective(ResourceAllocation, SubSeq(Here, 1, 4)) = ObjectiveHere
          /\ RLeq(ObjectiveHere, R(1900))

C6_Witness ==
    /\ model = "nonparallel_relaxed"
    /\ ObjectiveHere = R(1900)
    /\ Here[5] = Norm(1, 10)
    /\ Here[6] = Norm(9, 10)

\* the columns assigned to teacher t (0..2) at point x
ColumnsOf(x, t) == {j \in 1..6 : x[6 * t + j] = ROne}

C14_Recorded ==
    /\ Len(TeacherAllocation.vars) = 18
    /\ \A i \in 1..18 : TeacherAllocation.cat[i] = "Binary"
    /\ Feasible(TeacherAllocation, TeacherAllocationResult.values)
    /\ Objective(TeacherAllocation, TeacherAllocationResult.values) = R(51)
    /\ TeacherAllocationResult.objective = R(51)
    /\ ColumnsOf(TeacherAllocationResult.values, 0) = {1, 6}
    /\ ColumnsOf(TeacherAllocationResult.values, 1) = {1, 2}
    /\ ColumnsOf(TeacherAllocationResult.values, 2) = {3, 6}
    /\ TeacherAllocationResult.constraints =
          [r \in 1..4 |-> RSub(Lhs(TeacherAllocation.cons[r], TeacherAllocationResult.values),
                               TeacherAllocation.cons[r].rhs)]

\* C14: the teacher-allocation model has 18 binary variables; an assignment
\* is feasible exactly when each of the three teachers has two of the six
\* columns (six assignments in total); no feasible assignment has an
\* objective above 51, and the recorded one (x00, x05, x10, x11, x22, x25)
\* is feasible with objective 51.
C14_TeacherOptimum ==
    /\ C14_Recorded
    /\ model = "teacher" =>
          /\ Feasible(TeacherAllocation, Here) <=>
                \A t \in 0..2 : Cardinality(ColumnsOf(Here, t)) = 2
          /\ Feasible(TeacherAllocation, Here) <=> GridFeasible(Grids[model], val)
          /\ Feasible(TeacherAllocation, Here) =>
                /\ RLeq(ObjectiveHere, R(51))
                /\ Cardinality({i \in 1..18 : Here[i] = ROne}) = 6

C14_Witness ==
    /\ model = "teacher"
    /\ Here = TeacherAllocationResult.values
    /\ Feasible(TeacherAllocation, Here)
    /\ ObjectiveHere = R(51)

\* the grid points next to v, and v itself
Neighbours(v) == {v} \cup {[v EXCEPT ![i] = @ + 1] : i \in 1..Len(v)}

C16_Recorded ==
    /\ LinprogModel.sense = "min" /\ ResourceAllocation.sense = "max"
    /\ LinprogModel.obj = RVec(<<-20, -12, -40, -25>>)
    /\ ResourceAllocation.obj = RVec(<<20, 12, 40, 25>>)
    /\ LinprogResult.x = ResourceAllocationResult.values
    /\ LinprogResult.fun = RNeg(ResourceAllocationResult.objective)
    /\ Slack(LinprogModel, LinprogResult.x) = LinprogResult.slack
    /\ LinprogResult.slack = RVec(<<0, 40, 0>>)
    /\ ResourceAllocationResult.constraints =
          [r \in 1..3 |-> ConstraintValue(ResourceAllocation.cons[r],
                                          ResourceAllocationResult.values)]
    /\ \A r \in 1..3 :
          LinprogResult.slack[r] = RNeg(ResourceAllocationResult.constraints[r])
    /\ {r \in 1..3 : LinprogResult.slack[r] = RZero} = {1, 3}

\* C16: the scipy and the pulp formulation of the resource-allocation
\* problem are equivalent: at every point the search of either reaches, and
\* at the points next to it, the two agree on feasibility, the scipy
\* objective is minus the pulp objective and each slack is minus the
\* constraint value; both have their optimum at x = (5, 0, 45, 0) and only
\* there, fun = -1900 against objective 1900, slack (0, 40, 0) against
\* values (0, -40, 0): Capacity and Raw B bind, Raw A does not.
C16_Equivalent ==
    /\ C16_Recorded
    /\ model \in {"linprog", "allocation"} =>
          \A v \in Neighbours(val) :
              LET x == Point(Models[model], v)
              IN  /\ Point(LinprogModel, v) = Point(ResourceAllocation, v)
                  /\ Feasible(LinprogModel, x) <=> Feasible(ResourceAllocation, x)
                  /\ Objective(LinprogModel, x) = RNeg(Objective(ResourceAllocation, x))
                  /\ \A r \in 1..3 :
                        Slack(LinprogModel, x)[r]
                            = RNeg(ConstraintValue(ResourceAllocation.cons[r], x))
                  /\ Feasible(LinprogModel, x) =>
                        /\ \A r \in 1..3 : RLeq(RZero, Slack(LinprogModel, x)[r])
                        /\ RLeq(LinprogResult.fun, Objective(LinprogModel, x))
                        /\ Objective(LinprogModel, x) = LinprogResult.fun
                              => x = LinprogResult.x
                  /\ Feasible(ResourceAllocation, x) =>
                        /\ RLeq(Objective(ResourceAllocation, x),
                                ResourceAllocationResult.objective)
                        /\ Objective(ResourceAllocation, x) = ResourceAllocationResult.objective
                              => x = ResourceAllocationResult.values

C16_Witness ==
    /\ model = "linprog"
    /\ Here = ResourceAllocationResult.values
    /\ Slack(LinprogModel, Here) = RVec(<<0, 40, 0>>)
    /\ \E v \in Neighbours(val) : ~Feasible(ResourceAllocation, Point(ResourceAllocation, v))

\* the values the pair (y1, y3) can take
YChoices == {<<0, 0>>, <<1, 0>>, <<0, 1>>, <<1, 1>>}

\* the resource-allocation LP with the objective replaced by variable i
MaximizeVar(i) ==
    [ResourceAllocation EXCEPT !.obj = [j \in 1..4 |-> IF j = i THEN ROne ELSE RZero]]

\* the binary model keeps the three resource rows of the LP, and Capacity
\* alone bounds x1 and x3 by 50 at every real feasible x of the LP
C18_Recorded ==
    /\ \A r \in 1..3 :
          /\ SubSeq(NonParallelProduction.cons[r].coef, 1, 4) = ResourceAllocation.cons[r].coef
          /\ NonParallelProduction.cons[r].rhs = ResourceAllocation.cons[r].rhs
    /\ DualBound(MaximizeVar(1), RVec(<<1, 0, 0>>), R(50))
    /\ DualBound(MaximizeVar(3), RVec(<<1, 0, 0>>), R(50))

\* C18: the constant 50 of x1 <= 50*y1 and x3 <= 50*y3 cuts off no plan: a
\* feasible x of the LP with x1 = 0 or x3 = 0 has binary y1, y3 with
\* y1 + y3 <= 1 that satisfy all six constraints, a feasible x with both
\* positive has none, and every feasible point of the binary model is, in x,
\* a feasible point of the LP with x1 = 0 or x3 = 0.
C18_BigMNeverCuts ==
    /\ C18_Recorded
    /\ (model = "allocation" /\ Feasible(ResourceAllocation, Here)) =>
          ((Here[1] = RZero \/ Here[3] = RZero) <=>
              \E y \in YChoices :
                  /\ y[1] + y[2] <= 1
                  /\ Feasible(NonParallelProduction, Here \o RVec(y)))
    /\ model = "nonparallel" =>
          /\ Feasible(ResourceAllocation, SubSeq(Here, 1, 4))
          /\ Here[1] = RZero \/ Here[3] = RZero
          /\ RLeq(Here[1], R(50)) /\ RLeq(Here[3], R(50))

C18_Witness ==
    /\ model = "allocation"
    /\ Here = RVec(<<0, 0, 45, 0>>)
    /\ Feasible(NonParallelProduction, Here \o RVec(<<0, 1>>))
    /\ ~Feasible(NonParallelProduction, Here \o RVec(<<1, 0>>))

---------------------------------------------------------------------------
(* Properties of the notebook kernel (checked under SpecNB)                *)

\* the model defined directly above each report cell
Above == [report_allocation |-> "allocation", report_nonparallel |-> "nonparallel"]

\* the model bound by the last building cell among r[1..i] ("none": none ran)
RECURSIVE LastBuilt(_, _)
LastBuilt(r, i) ==
    IF i = 0 THEN "none"
    ELSE IF r[i] \in DOMAIN Builds THEN Builds[r[i]]
    ELSE LastBuilt(r, i - 1)

RanBefore(cell, i) == \E j \in 1..(i - 1) : ran[j] = cell

PositionOf(cell) == CHOOSE i \in 1..Len(DocumentOrder) : DocumentOrder[i] = cell

\* the cells were run top to bottom (some possibly skipped), none twice
InDocumentOrder(r) ==
    \A i, j \in 1..Len(r) : i < j => PositionOf(r[i]) < PositionOf(r[j])

IsPrefix(r, d) == Len(r) <= Len(d) /\ \A i \in 1..Len(r) : r[i] = d[i]

HasObjective(e) == e.objective # <<>>

\* the objectives printed so far, in the order they were printed
ObjectivesPrinted ==
    LET sel == SelectSeq(out, HasObjective)
    IN  [i \in 1..Len(sel) |-> sel[i].objective[1]]

\* every report cell run so far completed and described the model above it
EachReportDescribesAbove ==
    \A i \in 1..Len(ran) :
        ran[i] \in DOMAIN Above =>
            out[i].error = "none" /\ out[i].model = Above[ran[i]]

\* C19, as stated: only when the cells run in document order does each
\* report cell describe the model defined directly above it.
C19_OnlyInDocumentOrder ==
    (/\ \E i \in 1..Len(ran) : ran[i] = "report_allocation"
     /\ \E i \in 1..Len(ran) : ran[i] = "report_nonparallel"
     /\ EachReportDescribesAbove)
        => InDocumentOrder(ran)

\* C19, amended: whatever the order of execution, a report cell prints the
\* status and objective of the model bound by the building cell executed
\* last before it (NameError on model if none was); it describes the model
\* defined directly above it exactly when that model's building cell is that
\* last one.  Document order is one such order and gives 1900, 1800, 330000,
\* 51, and it is the only order of the six cells, each run once, that prints
\* these four objectives in this sequence; but it is not the only order in
\* which every report describes the model above it.  The second report cell
\* ends in a NameError whenever the binary model's building cell has not run.
C19_ReportsFollowLastBuild ==
    /\ Len(out) = Len(ran)
    /\ \A i \in 1..Len(ran) :
          ran[i] \in DOMAIN Above =>
              LET last == LastBuilt(ran, i - 1)
              IN  /\ last = "none" => out[i].error = "model" /\ out[i].objective = <<>>
                  /\ last # "none" =>
                        /\ out[i].model = last
                        /\ out[i].objective = <<Recorded[last].objective>>
                  /\ out[i].model = Above[ran[i]] <=> last = Above[ran[i]]
                  /\ (ran[i] = "report_nonparallel" /\ ~RanBefore("build_nonparallel", i))
                        => out[i].error \in {"model", "x1", "y1"}
    /\ IsPrefix(ran, DocumentOrder) =>
          /\ EachReportDescribesAbove
          /\ IsPrefix(ObjectivesPrinted, <<R(1900), R(1800), R(330000), R(51)>>)
    /\ (/\ Len(ran) = Len(DocumentOrder)
        /\ \A cell \in Cells : \E i \in 1..Len(ran) : ran[i] = cell
        /\ EachReportDescribesAbove
        /\ ObjectivesPrinted = <<R(1900), R(1800), R(330000), R(51)>>)
          => ran = DocumentOrder

C19_Witness ==
    /\ ran = <<"build_nonparallel", "report_nonparallel", "build_allocation",
               "build_nonparallel", "report_allocation", "carfactory">>
    /\ out[2].objective = <<R(1800)>> /\ out[2].error = "none"
    /\ out[5].objective = <<R(1800)>> /\ out[5].model = "nonparallel"
    /\ out[6].objective = <<R(330000)>>

=============================================================================
